---- MODULE Spec2Model ----
(***************************************************************************)
(* Model of the form-filling core of the jobfinder backend:                *)
(*   - the label-to-data matcher inlined in                                *)
(*     AsyncFormFillerAgent.fill_form_fields,                              *)
(*   - the separation of scanned fields into input fields and buttons,     *)
(*   - the multi-step traversal loop AsyncFormFillerAgent.fill_form_from_url.*)
(* Python strings are modelled as sequences of one-character strings, so   *)
(* that lower(), replace(), split() and the `in` substring test are        *)
(* computed the way the code computes them.                                *)
(***************************************************************************)
EXTENDS Integers, Sequences, FiniteSets, TLC

VARIABLES
    \* ---- traversal run (fill_form_from_url) ----
    pc,                 \* position of the run
    max_steps,          \* run parameter
    data,               \* the data dictionary: sequence of [key, val] in iteration order
    agent_ready,        \* self.agent_executor is not None
    browser,            \* what the live page currently shows: [url, title, fields]
    step,
    previous_url, previous_title, previous_hash,
    current_url, current_title,
    page_changed,
    fields,             \* result of this step's find_fields()
    next_buttons, final_submit_buttons, input_fields,   \* controller's lists
    all_filled_fields, all_failed_fields, all_errors,
    result,             \* the returned dictionary, or None
    \* ---- history of what the run did (observation only) ----
    fill_phase,         \* last fill phase: its own separation, instruction and outcome
    issued,             \* sequence of instructions handed to the outside
    scans,              \* number of find_fields() calls
    scan_log,           \* the field lists the steps' scans returned, in order
    loop_entries,       \* number of times the loop body was entered
    \* ---- one matcher call (MatchSpec) ----
    m_field, m_data, m_result, m_pc,
    \* ---- one _classify_field_type call (ClassifySpec) ----
    c_input_type, c_attributes, c_result, c_pc,
    \* ---- one find_fields call on a document (DomSpec) ----
    dom,                \* the elements of the page, in document order
    page_started,       \* self.page is set
    detected_fields,    \* self.detected_fields
    detected_from,      \* for each detected field, the position of its element in dom
    d_pc

vars == << pc, max_steps, data, agent_ready, browser, step,
           previous_url, previous_title, previous_hash,
           current_url, current_title, page_changed,
           fields, next_buttons, final_submit_buttons, input_fields,
           all_filled_fields, all_failed_fields, all_errors, result,
           fill_phase, issued, scans, scan_log, loop_entries,
           m_field, m_data, m_result, m_pc,
           c_input_type, c_attributes, c_result, c_pc,
           dom, page_started, detected_fields, detected_from, d_pc >>

run_vars == << pc, max_steps, data, agent_ready, browser, step,
               previous_url, previous_title, previous_hash,
               current_url, current_title, page_changed,
               fields, next_buttons, final_submit_buttons, input_fields,
               all_filled_fields, all_failed_fields, all_errors, result,
               fill_phase, issued, scans, scan_log, loop_entries >>

match_vars == << m_field, m_data, m_result, m_pc >>

classify_vars == << c_input_type, c_attributes, c_result, c_pc >>

dom_vars == << dom, page_started, detected_fields, detected_from, d_pc >>

\* Python's None, for values that are otherwise strings (sequences)
None == << "None" >>
\* no dictionary returned (yet)
NoResult == [ returned |-> FALSE ]

(***************************************************************************)
(* Bounds of the model.                                                    *)
(***************************************************************************)
MaxSteps == 3       \* largest max_steps a run is started with
MaxLen == 2         \* longest generated field label
MaxKeyLen == 2      \* longest generated data key
MaxKeys == 2        \* most keys in a generated data dictionary
MaxElems == 2       \* most elements in a generated document

(***************************************************************************)
(* Python string primitives.                                               *)
(***************************************************************************)
UpperChars == << "A","B","C","D","E","F","G","H","I","J","K","L","M",
                 "N","O","P","Q","R","S","T","U","V","W","X","Y","Z" >>
LowerChars == << "a","b","c","d","e","f","g","h","i","j","k","l","m",
                 "n","o","p","q","r","s","t","u","v","w","x","y","z" >>

\* str.lower() on one character
LowerChar(c) ==
    IF \E i \in 1..26 : UpperChars[i] = c
    THEN LowerChars[CHOOSE i \in 1..26 : UpperChars[i] = c]
    ELSE c

\* str.lower()
Lower(s) == [i \in 1..Len(s) |-> LowerChar(s[i])]

\* str.replace(c, rep) for a one-character c; rep is a string (possibly empty)
RECURSIVE Replace(_, _, _)
Replace(s, c, rep) ==
    IF s = << >> THEN << >>
    ELSE (IF Head(s) = c THEN rep ELSE << Head(s) >>) \o Replace(Tail(s), c, rep)

\* the `sub in s` substring test
Contains(s, sub) ==
    /\ Len(sub) <= Len(s)
    /\ \E i \in 0..(Len(s) - Len(sub)) : SubSeq(s, i + 1, i + Len(sub)) = sub

\* str.split() without arguments: split on runs of whitespace, no empty words
RECURSIVE SplitWs(_, _)
SplitWs(s, cur) ==
    IF s = << >> THEN (IF cur = << >> THEN << >> ELSE << cur >>)
    ELSE IF Head(s) = " "
         THEN (IF cur = << >> THEN << >> ELSE << cur >>) \o SplitWs(Tail(s), << >>)
         ELSE SplitWs(Tail(s), Append(cur, Head(s)))

Split(s) == SplitWs(s, << >>)

\* [w for w in ws if len(w) > n]
RECURSIVE LongerThan(_, _)
LongerThan(ws, n) ==
    IF ws = << >> THEN << >>
    ELSE (IF Len(Head(ws)) > n THEN << Head(ws) >> ELSE << >>) \o LongerThan(Tail(ws), n)

\* variant: the underscore is left in place
Normalize_noUnderscore(s) == Replace(Replace(s, "'", << >>), "-", << " " >>)

\* s.replace("'", "").replace("-", " ").replace("_", " ")
Normalize(s) == Replace(Replace(Replace(s, "'", << >>), "-", << " " >>), "_", << " " >>)

\* [w for w in normalized.split() if len(w) > 2]
Words(normalized) == LongerThan(Split(normalized), 2)

Range(seq) == { seq[i] : i \in 1..Len(seq) }

(***************************************************************************)
(* String literals used by the code and by the checked scenarios.          *)
(***************************************************************************)
Unnamed == << "U","n","n","a","m","e","d" >>
kw_next == << "n","e","x","t" >>
kw_continue == << "c","o","n","t","i","n","u","e" >>
kw_proceed == << "p","r","o","c","e","e","d" >>
kw_forward == << "f","o","r","w","a","r","d" >>
kw_step == << "s","t","e","p" >>
kw_submit == << "s","u","b","m","i","t" >>
kw_send == << "s","e","n","d" >>
kw_apply == << "a","p","p","l","y" >>
kw_finish == << "f","i","n","i","s","h" >>
kw_complete == << "c","o","m","p","l","e","t","e" >>

\* next_keywords / final_keywords of the fill phase's fallback
next_keywords == << kw_next, kw_continue, kw_proceed, kw_forward, kw_step >>
final_keywords == << kw_submit, kw_send, kw_apply, kw_finish, kw_complete >>

s_First_Name == << "F","i","r","s","t"," ","N","a","m","e" >>
s_firstname == << "f","i","r","s","t","n","a","m","e" >>
s_aaa_bbb_ccc == << "a","a","a"," ","b","b","b"," ","c","c","c" >>
s_aaa_ddd == << "a","a","a"," ","d","d","d" >>
s_Email_Address == << "E","m","a","i","l"," ","A","d","d","r","e","s","s" >>
s_email == << "e","m","a","i","l" >>
s_e_mail_confirm == << "e","-","m","a","i","l"," ","c","o","n","f","i","r","m" >>
s_field_0 == << "f","i","e","l","d","_","0" >>
s_John == << "J","o","h","n" >>
s_a_at_b == << "a","@","b" >>

(***************************************************************************)
(* The matcher: the scoring of one data key against one field, and the     *)
(* left-to-right scan of the dictionary keeping the best score.            *)
(***************************************************************************)
\* field_label = field.label or field_name or 'Unnamed'
FieldLabel(f) ==
    IF f.label # << >> THEN f.label
    ELSE IF f.name # << >> THEN f.name
    ELSE Unnamed

\* kw in w or w in kw
PartialWord(kw, w) == Contains(w, kw) \/ Contains(kw, w)

\* variant: only `field_label_lower in key_lower` is tested
SubstringTier_oneway(key_lower, field_label_lower) ==
    Contains(key_lower, field_label_lower)

\* key_lower in field_label_lower or field_label_lower in key_lower
SubstringTier(key_lower, field_label_lower) ==
    Contains(field_label_lower, key_lower) \/ Contains(key_lower, field_label_lower)

\* the if/elif chain computing `score` for one key
KeyScore(key, field_label, field_name, field_id) ==
    LET key_lower == Lower(key)
        key_normalized == Normalize(key_lower)
        key_words == Words(key_normalized)
        field_label_lower == Lower(field_label)
        field_label_normalized == Normalize(field_label_lower)
        field_label_words == Words(field_label_normalized)
        matching_words ==
            Cardinality({ i \in 1..Len(key_words) :
                \E j \in 1..Len(field_label_words) :
                    PartialWord(key_words[i], field_label_words[j]) })
    IN
    IF key_lower = field_label_lower THEN 100
    ELSE IF key_normalized = field_label_normalized THEN 95
    ELSE IF field_name # << >> /\ key_lower = Lower(field_name) THEN 80
    ELSE IF key_lower = Lower(field_id) THEN 70
    ELSE IF SubstringTier(key_lower, field_label_lower) THEN 60
    ELSE IF /\ Len(key_words) > 0
            /\ \A i \in 1..Len(key_words) : \E j \in 1..Len(field_label_words) :
                   PartialWord(key_words[i], field_label_words[j])
         THEN 55
    ELSE IF /\ Len(field_label_words) > 0
            /\ \A j \in 1..Len(field_label_words) : \E i \in 1..Len(key_words) :
                   PartialWord(field_label_words[j], key_words[i])
         THEN 55
    ELSE IF Len(key_words) > 0 /\ Len(field_label_words) > 0
         THEN \* matching_words >= len(key_words) * 0.7, then * 0.5
              (IF 10 * matching_words >= 7 * Len(key_words) THEN 50
               ELSE IF 2 * matching_words >= Len(key_words) THEN 45
               ELSE 0)
    ELSE IF \E i \in 1..Len(key_words) :
                Len(key_words[i]) > 3 /\ Contains(field_label_lower, key_words[i])
         THEN 40
    ELSE IF \E j \in 1..Len(field_label_words) :
                Len(field_label_words[j]) > 3 /\ Contains(key_lower, field_label_words[j])
         THEN 40
    ELSE IF \E i \in 1..Len(key_words) : \E j \in 1..Len(field_label_words) :
                key_words[i] = field_label_words[j]
         THEN 35
    ELSE 0

\* variant: a key with an equal score replaces the current best
Better_ge(score, best_score) == score >= best_score

\* if score > best_score: best_score, best_match_key, best_match_value = ...
Better(score, best_score) == score > best_score

\* for key, val in data.items(): ...   (d is the part of the dictionary still to scan)
RECURSIVE ScanKeys(_, _, _, _, _)
ScanKeys(d, field_label, field_name, field_id, best) ==
    IF d = << >> THEN best
    ELSE LET score == KeyScore(Head(d).key, field_label, field_name, field_id)
             nb == IF Better(score, best.score)
                   THEN [key |-> Head(d).key, value |-> Head(d).val, score |-> score]
                   ELSE best
         IN ScanKeys(Tail(d), field_label, field_name, field_id, nb)

\* variant: a match for a field that has a name attribute gets 5 more points
BestMatch_nameBonus(f, d) ==
    LET best == ScanKeys(d, FieldLabel(f), f.name, f.element_id,
                         [key |-> None, value |-> None, score |-> 0])
    IN IF best.key # None /\ f.name # << >> THEN [best EXCEPT !.score = @ + 5] ELSE best

\* variant: the scan starts from best_score = -1
BestMatch_initMinus1(f, d) ==
    ScanKeys(d, FieldLabel(f), f.name, f.element_id,
             [key |-> None, value |-> None, score |-> -1])

\* best_match_key / best_match_value / best_score for one input field
BestMatch(f, d) ==
    ScanKeys(d, FieldLabel(f), f.name, f.element_id,
             [key |-> None, value |-> None, score |-> 0])

(***************************************************************************)
(* Field records and the separation of a scanned field list.               *)
(* A FormField built by DivSelector.find_fields has the attributes of the  *)
(* dataclass and no others; hasattr() is modelled by the record's domain.  *)
(***************************************************************************)
FormField(id, type, lbl, nm) ==
    [element_id |-> id, field_type |-> type, label |-> lbl, name |-> nm]

ButtonTypes == { "submit", "button" }

\* hasattr(f, attr) and getattr(f, attr)
HasFlag(f, attr) == attr \in DOMAIN f /\ f[attr] = TRUE

\* any(kw in label_lower or kw in name_lower for kw in keywords)
AnyKeyword(keywords, f) ==
    \E k \in 1..Len(keywords) :
        Contains(Lower(f.label), keywords[k]) \/ Contains(Lower(f.name), keywords[k])

\* the branch of the fill phase's separation loop that takes a field as a next button
FillIsNext(f) ==
    /\ f.field_type \in ButtonTypes
    /\ \/ HasFlag(f, "is_next_button")
       \/ ~HasFlag(f, "is_final_submit") /\ AnyKeyword(next_keywords, f)

\* variant: every button that is not a next button is taken as a final submit
FillIsFinal_anyButton(f) ==
    /\ f.field_type \in ButtonTypes
    /\ ~FillIsNext(f)

\* the branch that takes it as a final submit button
FillIsFinal(f) ==
    /\ f.field_type \in ButtonTypes
    /\ ~HasFlag(f, "is_next_button")
    /\ \/ HasFlag(f, "is_final_submit")
       \/ ~AnyKeyword(next_keywords, f) /\ AnyKeyword(final_keywords, f)

IsInput(f) == f.field_type \notin ButtonTypes

\* variant: the input fields are cut down to the first one
SeparateFields_firstInputOnly(fs) ==
    [ input_fields |-> IF SelectSeq(fs, IsInput) = << >> THEN << >>
                       ELSE << SelectSeq(fs, IsInput)[1] >>,
      next_buttons |-> SelectSeq(fs, FillIsNext),
      final_submit_buttons |-> SelectSeq(fs, FillIsFinal) ]

\* the separation loop at the head of fill_form_fields
SeparateFields(fs) ==
    [ input_fields |-> SelectSeq(fs, IsInput),
      next_buttons |-> SelectSeq(fs, FillIsNext),
      final_submit_buttons |-> SelectSeq(fs, FillIsFinal) ]

\* the controller's own lists, taken from the flags alone
CtlIsNext(f) == HasFlag(f, "is_next_button")
CtlIsFinal(f) == HasFlag(f, "is_final_submit")
ControllerNextButtons(fs) == SelectSeq(fs, CtlIsNext)
ControllerFinalButtons(fs) == SelectSeq(fs, CtlIsFinal)
ControllerInputFields(fs) == SelectSeq(fs, IsInput)

Ids(fs) == [i \in 1..Len(fs) |-> fs[i].element_id]

(***************************************************************************)
(* fill_form_fields: instruction building, the agent call and the parsing  *)
(* of its output.                                                          *)
(***************************************************************************)
\* repr() of a str key
Repr(k) ==
    IF Contains(k, << "'" >>) /\ ~Contains(k, << "\"" >>)
    THEN << "\"" >> \o Replace(k, "\\", << "\\", "\\" >>) \o << "\"" >>
    ELSE << "'" >> \o Replace(Replace(k, "\\", << "\\", "\\" >>), "'", << "\\", "'" >>)
                  \o << "'" >>

RECURSIVE JoinKeys(_)
JoinKeys(d) ==
    IF d = << >> THEN << >>
    ELSE Repr(Head(d).key) \o (IF Len(d) > 1 THEN << ",", " " >> ELSE << >>) \o JoinKeys(Tail(d))

\* str(data.keys())
DictKeysStr(d) ==
    << "d","i","c","t","_","k","e","y","s","(","[" >> \o JoinKeys(d) \o << "]", ")" >>

\* what the agent call can produce: an exception, or an output text, of which
\* the code only looks at which ids occur in output.lower() and whether the
\* word "success" does
AgentOutcomes(fs) ==
    [ raised : { FALSE },
      mentions : SUBSET { Lower(fs[i].element_id) : i \in 1..Len(fs) },
      success : BOOLEAN ]
    \cup { [ raised |-> TRUE, mentions |-> {}, success |-> FALSE ] }

\* field_id in output.lower() or "success" in output.lower() or field_id in str(data.keys())
CountsAsFilled(f, d, outcome) ==
    \/ f.element_id \in outcome.mentions
    \/ outcome.success
    \/ Contains(DictKeysStr(d), f.element_id)

\* one entry of field_descriptions
FieldDescription(f, d) ==
    LET best == BestMatch(f, d)
    IN [ field |-> f, id |-> f.element_id, label |-> FieldLabel(f),
         suggested_key |-> IF best.value # None THEN best.key ELSE None,
         score |-> best.score ]

\* variant: an input field without a matching key is left out of the instruction
Instruction_skipUnmatched(fs, d) ==
    LET sep == SeparateFields(fs)
        HasMatch(f) == BestMatch(f, d).score > 0
        matched == SelectSeq(sep.input_fields, HasMatch)
    IN [ fill |-> [i \in 1..Len(matched) |-> FieldDescription(matched[i], d)],
         click_next |-> sep.next_buttons,
         click_final |-> sep.final_submit_buttons ]

\* the instruction handed to the agent: every input field, then the buttons
Instruction(fs, d) ==
    LET sep == SeparateFields(fs)
    IN [ fill |-> [i \in 1..Len(sep.input_fields) |->
                      FieldDescription(sep.input_fields[i], d)],
         click_next |-> sep.next_buttons,
         click_final |-> sep.final_submit_buttons ]

\* the loop over fields that sorts ids into filled_fields / failed_fields
ParseOutput(fs, d, outcome) ==
    LET Filled(f) == CountsAsFilled(f, d, outcome)
        NotFilled(f) == ~CountsAsFilled(f, d, outcome)
        filled == Ids(SelectSeq(fs, Filled))
        failed == Ids(SelectSeq(fs, NotFilled))
    IN [ filled_fields |-> IF filled = << >> /\ failed = << >> THEN Ids(fs) ELSE filled,
         failed_fields |-> failed ]

\* the dictionary fill_form_fields returns
fill_form_fields(fs, d, outcome) ==
    LET sep == SeparateFields(fs)
    IN IF sep.input_fields = << >>
       THEN [ success |-> FALSE, filled_fields |-> << >>,
              failed_fields |-> Ids(sep.input_fields),
              errors |-> << "No input fields found on the page" >> ]
       ELSE IF outcome.raised
       THEN [ success |-> FALSE, filled_fields |-> << >>,
              failed_fields |-> Ids(fs),
              errors |-> << "Agent execution failed" >> ]
       ELSE LET parsed == ParseOutput(fs, d, outcome)
            IN [ success |-> Len(parsed.filled_fields) > 0 /\ Len(parsed.failed_fields) = 0,
                 filled_fields |-> parsed.filled_fields,
                 failed_fields |-> parsed.failed_fields,
                 errors |-> << >> ]

\* the agent is invoked only when there is at least one input field
AgentInvoked(fs) == SeparateFields(fs).input_fields # << >>

(***************************************************************************)
(* The pages the browser can show.  A page is what the live DOM gives the  *)
(* run: its URL, its title and the field records a scan of it returns.     *)
(***************************************************************************)
s_Next == << "N","e","x","t" >>
s_Submit == << "S","u","b","m","i","t" >>
s_Help == << "H","e","l","p" >>

f_email == FormField(s_email, "email", s_Email_Address, s_email)
f_first == FormField(s_field_0, "name", s_First_Name, << >>)
f_plain == FormField(<< "x","1" >>, "text", << >>, << >>)
b_next == FormField(<< "n","b" >>, "submit", s_Next, << >>)
b_submit == FormField(<< "s","b" >>, "submit", s_Submit, << >>)
b_help == FormField(<< "H","b" >>, "button", s_Help, << >>)

p_three_next == << f_email, f_first, f_plain, b_next >>
p_submit == << f_email, b_submit >>
p_help == << f_first, b_help >>
p_only_next == << b_next >>
p_next_submit == << f_email, b_next, b_submit >>
p_only_submit == << b_submit >>

Page(u, t, fs) == [ url |-> u, title |-> t, fields |-> fs ]

Pages ==
    { Page(<< "u" >>, "t1", p_three_next),
      Page(<< "u","#","a" >>, "t1", p_submit),
      Page(<< "v" >>, "t2", p_help),
      Page(<< "u" >>, "t2", p_only_next),
      Page(<< "v" >>, "t1", << >>),
      Page(<< "u","#","a" >>, "t2", p_next_submit),
      Page(<< "v" >>, "t2", p_only_submit) }

RunDicts ==
    { << >>,
      << [key |-> s_email, val |-> s_a_at_b] >>,
      << [key |-> s_firstname, val |-> s_John], [key |-> s_e_mail_confirm, val |-> s_a_at_b] >> }

\* url.split('#')[1] if '#' in url else None
RECURSIVE UpToHash(_)
UpToHash(s) ==
    IF s = << >> \/ Head(s) = "#" THEN << >> ELSE << Head(s) >> \o UpToHash(Tail(s))

RECURSIVE AfterHash(_)
AfterHash(s) ==
    IF s = << >> THEN << >>
    ELSE IF Head(s) = "#" THEN Tail(s) ELSE AfterHash(Tail(s))

HashOf(url) == IF Contains(url, << "#" >>) THEN UpToHash(AfterHash(url)) ELSE None

\* DivSelector.find_fields on the page the browser shows
find_fields(page) == page.fields

NoFill ==
    [ step |-> 0, invoked |-> FALSE,
      input_fields |-> << >>, next_buttons |-> << >>, final_submit_buttons |-> << >>,
      instruction |-> [ fill |-> << >>, click_next |-> << >>, click_final |-> << >> ],
      ret |-> NoResult ]

MatchIdle ==
    /\ m_field = FormField(<< >>, "text", << >>, << >>)
    /\ m_data = << >>
    /\ m_result = [key |-> None, value |-> None, score |-> 0]
    /\ m_pc = "idle"

(***************************************************************************)
(* divselection.py: field classification and DivSelector.find_fields.      *)
(* Element attributes are Python strings (sequences of characters); tag    *)
(* names, input types and FieldType values are compared for equality only  *)
(* and are kept as atoms.                                                  *)
(***************************************************************************)
\* FIELD_KEYWORDS, in the dictionary's insertion order
FIELD_KEYWORDS ==
    << [ field_type |-> "name",
         keywords |-> << << "n","a","m","e" >>,
                       << "f","i","r","s","t" >>,
                       << "l","a","s","t" >>,
                       << "f","u","l","l" >>,
                       << "f","i","r","s","t","n","a","m","e" >>,
                       << "l","a","s","t","n","a","m","e" >>,
                       << "f","u","l","l","n","a","m","e" >> >> ],
       [ field_type |-> "email",
         keywords |-> << << "e","m","a","i","l" >>,
                       << "e","-","m","a","i","l" >>,
                       << "m","a","i","l" >> >> ],
       [ field_type |-> "phone",
         keywords |-> << << "p","h","o","n","e" >>,
                       << "t","e","l" >>,
                       << "t","e","l","e","p","h","o","n","e" >>,
                       << "m","o","b","i","l","e" >>,
                       << "c","e","l","l" >> >> ],
       [ field_type |-> "file",
         keywords |-> << << "r","e","s","u","m","e" >>,
                       << "c","v" >>,
                       << "u","p","l","o","a","d" >>,
                       << "f","i","l","e" >>,
                       << "a","t","t","a","c","h","m","e","n","t" >>,
                       << "d","o","c","u","m","e","n","t" >> >> ],
       [ field_type |-> "url",
         keywords |-> << << "l","i","n","k","e","d","i","n" >>,
                       << "p","o","r","t","f","o","l","i","o" >>,
                       << "w","e","b","s","i","t","e" >>,
                       << "g","i","t","h","u","b" >>,
                       << "u","r","l" >>,
                       << "l","i","n","k" >> >> ],
       [ field_type |-> "date",
         keywords |-> << << "d","a","t","e" >>,
                       << "s","t","a","r","t" >>,
                       << "a","v","a","i","l","a","b","l","e" >>,
                       << "a","v","a","i","l","a","b","i","l","i","t","y" >> >> ],
       [ field_type |-> "submit",
         keywords |-> << << "s","u","b","m","i","t" >>,
                       << "s","e","n","d" >>,
                       << "a","p","p","l","y" >>,
                       << "n","e","x","t" >>,
                       << "c","o","n","t","i","n","u","e" >>,
                       << "p","r","o","c","e","e","d" >>,
                       << "f","i","n","i","s","h" >>,
                       << "c","o","m","p","l","e","t","e" >> >> ],
       [ field_type |-> "button",
         keywords |-> << << "b","u","t","t","o","n" >>,
                       << "b","t","n" >>,
                       << "c","l","i","c","k" >>,
                       << "a","c","t","i","o","n" >> >> ] >>

\* FIELD_KEYWORDS[FieldType.SUBMIT]
submit_keywords == FIELD_KEYWORDS[7].keywords

\* " ".join(parts)
RECURSIVE JoinSpace(_)
JoinSpace(parts) ==
    IF Len(parts) = 0 THEN << >>
    ELSE IF Len(parts) = 1 THEN parts[1]
    ELSE parts[1] \o << " " >> \o JoinSpace(Tail(parts))

\* any(kw in searchable for kw in keywords)
AnyKw(keywords, searchable) ==
    \E k \in 1..Len(keywords) : Contains(searchable, keywords[k])

\* the first entry of FIELD_KEYWORDS, from position g on, with a keyword in searchable
RECURSIVE FirstKeywordGroup(_, _)
FirstKeywordGroup(searchable, g) ==
    IF g > Len(FIELD_KEYWORDS) THEN "none"
    ELSE IF AnyKw(FIELD_KEYWORDS[g].keywords, searchable) THEN FIELD_KEYWORDS[g].field_type
    ELSE FirstKeywordGroup(searchable, g + 1)

\* the direct-type table of _classify_field_type
type_mapping ==
    [ email |-> "email", tel |-> "phone", file |-> "file", url |-> "url",
      date |-> "date", checkbox |-> "checkbox", radio |-> "radio",
      password |-> "password", submit |-> "submit", button |-> "button" ]

\* the searchable text of _classify_field_type
ClassifySearchable(attributes) ==
    Lower(JoinSpace(<< attributes.name, attributes.id, attributes.placeholder,
                       attributes.aria_label, attributes.class >>))

\* variant: a plain text input is returned as TEXT before the keywords are looked at
_classify_field_type_textFirst(input_type, attributes) ==
    IF input_type \in DOMAIN type_mapping THEN type_mapping[input_type]
    ELSE IF input_type = "text" THEN "text"
    ELSE LET group == FirstKeywordGroup(ClassifySearchable(attributes), 1) IN
         IF group # "none" THEN group ELSE "unknown"

\* variant: the keyword groups are consulted before the direct-type table
_classify_field_type_keywordsFirst(input_type, attributes) ==
    LET group == FirstKeywordGroup(ClassifySearchable(attributes), 1) IN
    IF group # "none" THEN group
    ELSE IF input_type \in DOMAIN type_mapping THEN type_mapping[input_type]
    ELSE IF input_type = "text" THEN "text"
    ELSE "unknown"

\* DivSelector._classify_field_type
_classify_field_type(input_type, attributes) ==
    IF input_type \in DOMAIN type_mapping THEN type_mapping[input_type]
    ELSE LET group == FirstKeywordGroup(ClassifySearchable(attributes), 1) IN
         IF group # "none" THEN group
         ELSE IF input_type = "text" THEN "text"
         ELSE "unknown"

\* DivSelector._classify_button_type; button_text is el.textContent || el.value || ''
_classify_button_type(button_text, attributes) ==
    LET searchable == Lower(JoinSpace(<< attributes.name, attributes.id, attributes.class,
                                         attributes.aria_label, button_text >>)) IN
    IF AnyKw(submit_keywords, searchable) THEN "submit" ELSE "button"

\* str.strip() for the blank character
RECURSIVE LStrip(_)
LStrip(s) == IF Len(s) > 0 /\ s[1] = " " THEN LStrip(Tail(s)) ELSE s
RECURSIVE RStrip(_)
RStrip(s) ==
    IF Len(s) > 0 /\ s[Len(s)] = " " THEN RStrip(SubSeq(s, 1, Len(s) - 1)) ELSE s
Strip(s) == RStrip(LStrip(s))

\* str(i) for a natural number
Digits == << "0","1","2","3","4","5","6","7","8","9" >>
RECURSIVE Str(_)
Str(i) == IF i < 10 THEN << Digits[i + 1] >> ELSE Str(i \div 10) \o << Digits[(i % 10) + 1] >>

\* f"field_{i}"
SyntheticId(i) == << "f","i","e","l","d","_" >> \o Str(i)

(***************************************************************************)
(* A DOM element as find_fields sees it: what _get_element_attributes      *)
(* reads (el.id, el.name, el.type, ...), the text of a button, the label   *)
(* _find_label_for_element finds, and what Playwright reports for          *)
(* is_visible() and bounding_box().  detached: a Playwright call on the    *)
(* element raises.                                                         *)
(***************************************************************************)
Element(tag, type, id, nm, cls, txt, lbl) ==
    [ tagName |-> tag, type |-> type, id |-> id, name |-> nm,
      placeholder |-> << >>, aria_label |-> << >>, class |-> cls,
      text |-> txt, label |-> lbl, contenteditable |-> FALSE,
      visible |-> TRUE, box |-> TRUE, detached |-> FALSE ]

\* the selectors of find_fields, in order
selectors ==
    << "input:not([type='hidden'])", "textarea", "select",
       "[contenteditable='true']", "button", "input[type='submit']",
       "input[type='button']" >>

\* does the element match the CSS selector
MatchesSelector(el, selector) ==
    CASE selector = "input:not([type='hidden'])" -> el.tagName = "input" /\ el.type # "hidden"
      [] selector = "textarea" -> el.tagName = "textarea"
      [] selector = "select" -> el.tagName = "select"
      [] selector = "[contenteditable='true']" -> el.contenteditable
      [] selector = "button" -> el.tagName = "button"
      [] selector = "input[type='submit']" -> el.tagName = "input" /\ el.type = "submit"
      [] selector = "input[type='button']" -> el.tagName = "input" /\ el.type = "button"

\* page.query_selector_all(selector): the positions of the matching elements, in document order
RECURSIVE QuerySelectorAll(_, _, _)
QuerySelectorAll(d, selector, k) ==
    IF k > Len(d) THEN << >>
    ELSE (IF MatchesSelector(d[k], selector) THEN << k >> ELSE << >>)
         \o QuerySelectorAll(d, selector, k + 1)

\* _get_element_attributes
ElementAttributes(el) ==
    [ id |-> el.id, name |-> el.name, type |-> el.type, placeholder |-> el.placeholder,
      aria_label |-> el.aria_label, class |-> el.class, tagName |-> el.tagName ]

\* the label find_fields gives the element
ElementLabel(el) ==
    IF el.tagName = "button" \/ el.type \in { "submit", "button" }
    THEN (IF Strip(el.text) # << >> THEN Strip(el.text) ELSE el.label)
    ELSE el.label

\* the field type find_fields gives the element
ElementFieldType(el) ==
    IF el.tagName = "textarea" THEN "textarea"
    ELSE IF el.tagName = "select" THEN "select"
    ELSE IF el.tagName = "button" THEN _classify_button_type(el.text, ElementAttributes(el))
    ELSE IF el.type \in { "submit", "button" }
         THEN _classify_button_type(el.text, ElementAttributes(el))
    ELSE _classify_field_type(el.type, ElementAttributes(el))

\* element_id or f"field_{i}"
ElementIdOf(el, i) == IF el.id # << >> THEN el.id ELSE SyntheticId(i)

\* the body of the loop over one selector's elements, from the i-th match (0-based) on;
\* each record is paired with the position of its element in the document
RECURSIVE ScanSelector(_, _, _)
ScanSelector(d, matches, i) ==
    IF i >= Len(matches) THEN << >>
    ELSE LET el == d[matches[i + 1]] IN
         (IF el.detached \/ ~el.visible \/ ~el.box THEN << >>
          ELSE << [ field |-> FormField(ElementIdOf(el, i), ElementFieldType(el),
                                        ElementLabel(el), el.name),
                    el |-> matches[i + 1] ] >>)
         \o ScanSelector(d, matches, i + 1)

\* the loop over the selectors, from the s-th on
RECURSIVE ScanSelectors(_, _)
ScanSelectors(d, s) ==
    IF s > Len(selectors) THEN << >>
    ELSE ScanSelector(d, QuerySelectorAll(d, selectors[s], 1), 0) \o ScanSelectors(d, s + 1)

\* self.detected_fields after find_fields on the document d
DetectedFields(d) == ScanSelectors(d, 1)

(***************************************************************************)
(* Documents the scans of the model read.                                  *)
(***************************************************************************)
e_email_named == Element("input", "text", << >>, << "e","m","a","i","l" >>, << >>, << >>, << "E","m","a","i","l" >>)
e_email_typed == Element("input", "email", << "e","m","a","i","l" >>, << "e","m","a","i","l" >>, << >>, << >>, << "E","m","a","i","l" >>)
e_bare == Element("input", "text", << >>, << >>, << >>, << >>, << >>)
e_kin == Element("input", "text", << "n","e","x","t","_","o","f","_","k","i","n" >>, << >>, << >>, << >>, << "K","i","n" >>)
e_submit_input == Element("input", "submit", << >>, << >>, << >>, << "S","u","b","m","i","t" >>, << >>)
e_button_input == Element("input", "button", << "g","o" >>, << >>, << "b","t","n" >>, << " ","H","e","l","p"," " >>, << >>)
e_apply_button == Element("button", "submit", << >>, << >>, << >>, << "A","p","p","l","y" >>, << >>)
e_textarea == Element("textarea", "textarea", << >>, << "c","o","v","e","r" >>, << >>, << >>, << "C","o","v","e","r"," ","l","e","t","t","e","r" >>)
e_select == Element("select", "select-one", << "s","t","a","r","t" >>, << >>, << >>, << >>, << "S","t","a","r","t" >>)
e_editable == [ Element("div", "", << >>, << >>, << >>, << >>, << >>) EXCEPT !.contenteditable = TRUE ]
e_hidden == Element("input", "hidden", << "t","o","k","e","n" >>, << "t","o","k","e","n" >>, << >>, << >>, << >>)
e_invisible == [ e_bare EXCEPT !.visible = FALSE ]
e_nobox == [ e_bare EXCEPT !.box = FALSE ]
e_detached == [ e_email_typed EXCEPT !.detached = TRUE ]

Elements ==
    { e_email_named, e_email_typed, e_bare, e_kin, e_submit_input, e_button_input,
      e_apply_button, e_textarea, e_select, e_editable, e_hidden, e_invisible,
      e_nobox, e_detached }

RECURSIVE Documents(_)
Documents(n) ==
    IF n = 0 THEN { << >> }
    ELSE LET shorter == Documents(n - 1) IN
         shorter \cup { Append(d, e) : d \in { x \in shorter : Len(x) = n - 1 }, e \in Elements }

\* the other parts of the model at rest
ClassifyIdle ==
    /\ c_input_type = "text"
    /\ c_attributes = ElementAttributes(e_bare)
    /\ c_result = "none"
    /\ c_pc = "idle"

DomIdle ==
    /\ dom = << >>
    /\ page_started = FALSE
    /\ detected_fields = << >>
    /\ detected_from = << >>
    /\ d_pc = "idle"


(***************************************************************************)
(* fill_form_from_url                                                      *)
(***************************************************************************)
Init ==
    /\ pc = "start"
    /\ max_steps \in 0..MaxSteps
    /\ data \in RunDicts
    /\ agent_ready \in BOOLEAN
    /\ browser \in Pages
    /\ step = 0
    /\ previous_url = None /\ previous_title = "" /\ previous_hash = None
    /\ current_url = None /\ current_title = ""
    /\ page_changed = FALSE
    /\ fields = << >>
    /\ next_buttons = << >> /\ final_submit_buttons = << >> /\ input_fields = << >>
    /\ all_filled_fields = << >> /\ all_failed_fields = << >> /\ all_errors = << >>
    /\ result = NoResult
    /\ fill_phase = NoFill
    /\ issued = << >>
    /\ scans = 0
    /\ scan_log = << >>
    /\ loop_entries = 0
    /\ MatchIdle /\ ClassifyIdle /\ DomIdle

\* an exception leaves fill_form_from_url: nothing is returned
Raise ==
    /\ pc' = "raised"
    /\ UNCHANGED << max_steps, data, agent_ready, browser, step,
                    previous_url, previous_title, previous_hash,
                    current_url, current_title, page_changed,
                    fields, next_buttons, final_submit_buttons, input_fields,
                    all_filled_fields, all_failed_fields, all_errors, result,
                    fill_phase, issued, scans, scan_log, loop_entries >>

\* selector.navigate(url) and the reading of the initial URL, title and hash
Navigate ==
    /\ pc = "start"
    /\ \E ok \in BOOLEAN :
         IF ok
         THEN /\ previous_url' = browser.url
              /\ previous_title' = browser.title
              /\ previous_hash' = HashOf(browser.url)
              /\ pc' = "loop"
              /\ UNCHANGED << max_steps, data, agent_ready, browser, step,
                              current_url, current_title, page_changed,
                              fields, next_buttons, final_submit_buttons, input_fields,
                              all_filled_fields, all_failed_fields, all_errors, result,
                              fill_phase, issued, scans, scan_log, loop_entries >>
         ELSE Raise
    /\ UNCHANGED << match_vars, classify_vars, dom_vars >>

\* page_changed as computed at the head of the loop body
PageChanged(prev_url, prev_hash, prev_title, url, hash, title) ==
    /\ prev_url # None
    /\ \/ url # prev_url
       \/ hash # prev_hash
       \/ title # prev_title

\* variant: the bound tested with <=
LoopCondition_le(st, mx) == st <= mx

\* while step < max_steps
LoopCondition(st, mx) == st < mx

\* `while step < max_steps:` and the head of the loop body, up to the
\* update of the tracking variables
LoopTest ==
    /\ pc = "loop"
    /\ IF LoopCondition(step, max_steps)
       THEN \E title_ok \in BOOLEAN :
              LET url == browser.url
                  title == IF title_ok THEN browser.title ELSE previous_title
              IN /\ step' = step + 1
                 /\ loop_entries' = loop_entries + 1
                 /\ current_url' = url
                 /\ current_title' = title
                 /\ page_changed' = PageChanged(previous_url, previous_hash, previous_title,
                                                url, HashOf(url), title)
                 /\ previous_url' = url
                 /\ previous_title' = title
                 /\ previous_hash' = HashOf(url)
                 /\ pc' = "scan"
       ELSE /\ pc' = "exit"
            /\ UNCHANGED << step, loop_entries, current_url, current_title, page_changed,
                            previous_url, previous_title, previous_hash >>
    /\ UNCHANGED << max_steps, data, agent_ready, browser,
                    fields, next_buttons, final_submit_buttons, input_fields,
                    all_filled_fields, all_failed_fields, all_errors, result,
                    fill_phase, issued, scans, scan_log >>
    /\ UNCHANGED << match_vars, classify_vars, dom_vars >>

\* variant: the empty first scan reported as a success
NoFieldsResult_success ==
    [ returned |-> TRUE, success |-> TRUE,
      filled_fields |-> << >>, failed_fields |-> << >>,
      errors |-> << >> ]

\* the dictionary returned when the first scan finds nothing
NoFieldsResult ==
    [ returned |-> TRUE, success |-> FALSE,
      filled_fields |-> << >>, failed_fields |-> << >>,
      errors |-> << "No form fields found on the page" >> ]

\* the scan of the step, the empty-scan exits and the controller's separation
Scan ==
    /\ pc = "scan"
    /\ \E ok \in BOOLEAN :
         IF ~ok THEN Raise
         ELSE LET fs == find_fields(browser)
              IN /\ fields' = fs
                 /\ scans' = scans + 1
                 /\ scan_log' = Append(scan_log, fs)
                 /\ current_url' = browser.url
                 /\ IF fs = << >>
                    THEN /\ IF step = 1
                            THEN /\ result' = NoFieldsResult
                                 /\ pc' = "done"
                            ELSE /\ result' = result
                                 /\ pc' = "exit"
                         /\ UNCHANGED << next_buttons, final_submit_buttons, input_fields >>
                    ELSE /\ next_buttons' = ControllerNextButtons(fs)
                         /\ final_submit_buttons' = ControllerFinalButtons(fs)
                         /\ input_fields' = ControllerInputFields(fs)
                         /\ result' = result
                         /\ pc' = "fill"
                 /\ UNCHANGED << max_steps, data, agent_ready, browser, step,
                                 previous_url, previous_title, previous_hash,
                                 current_title, page_changed,
                                 all_filled_fields, all_failed_fields, all_errors,
                                 fill_phase, issued, loop_entries >>
    /\ UNCHANGED << match_vars, classify_vars, dom_vars >>

\* the instructions one agent call hands out at step st
IssuedBy(ins, st) ==
    [i \in 1..Len(ins.fill) |->
        [kind |-> "fill", field |-> ins.fill[i].field, step |-> st, by |-> "agent"]]
    \o [i \in 1..Len(ins.click_next) |->
        [kind |-> "click", field |-> ins.click_next[i], step |-> st, by |-> "agent"]]
    \o [i \in 1..Len(ins.click_final) |->
        [kind |-> "click", field |-> ins.click_final[i], step |-> st, by |-> "agent"]]

\* result = await self.fill_form_fields(fields, data, ...) and the three extend()s
Fill ==
    /\ pc = "fill"
    /\ IF ~agent_ready THEN Raise
       ELSE LET invoked == AgentInvoked(fields)
                sep == SeparateFields(fields)
                ins == Instruction(fields, data)
            IN \E outcome \in AgentOutcomes(fields) :
               \E page \in (IF invoked THEN Pages ELSE { browser }) :
                 LET ret == fill_form_fields(fields, data, outcome)
                 IN /\ invoked \/ outcome = [ raised |-> TRUE, mentions |-> {}, success |-> FALSE ]
                    /\ all_filled_fields' = all_filled_fields \o ret.filled_fields
                    /\ all_failed_fields' = all_failed_fields \o ret.failed_fields
                    /\ all_errors' = all_errors \o ret.errors
                    /\ issued' = IF invoked THEN issued \o IssuedBy(ins, step) ELSE issued
                    /\ browser' = page
                    /\ fill_phase' =
                         [ step |-> step, invoked |-> invoked,
                           input_fields |-> sep.input_fields,
                           next_buttons |-> sep.next_buttons,
                           final_submit_buttons |-> sep.final_submit_buttons,
                           instruction |-> IF invoked THEN ins ELSE NoFill.instruction,
                           ret |-> ret ]
                    /\ pc' = "buttons"
                    /\ UNCHANGED << max_steps, data, agent_ready, step,
                                    previous_url, previous_title, previous_hash,
                                    current_url, current_title, page_changed,
                                    fields, next_buttons, final_submit_buttons, input_fields,
                                    result, scans, scan_log, loop_entries >>
    /\ UNCHANGED << match_vars, classify_vars, dom_vars >>

\* `if next_buttons:` ... continue / `if final_submit_buttons:` break / break
AwaitingButton ==
    /\ pc = "buttons"
    /\ IF next_buttons # << >>
       THEN \E title_ok \in BOOLEAN, scan_ok \in BOOLEAN, title2_ok \in BOOLEAN :
            \E page \in Pages :
              IF ~title_ok \/ ~scan_ok THEN Raise
              ELSE /\ issued' = Append(issued,
                          [kind |-> "click", field |-> next_buttons[1],
                           step |-> step, by |-> "controller"])
                   /\ browser' = page
                   /\ previous_url' = page.url
                   /\ previous_title' = IF title2_ok THEN page.title ELSE browser.title
                   /\ previous_hash' = HashOf(page.url)
                   /\ scans' = scans + 1
                   /\ pc' = "loop"
                   /\ UNCHANGED << max_steps, data, agent_ready, step,
                                   current_url, current_title, page_changed,
                                   fields, next_buttons, final_submit_buttons, input_fields,
                                   all_filled_fields, all_failed_fields, all_errors, result,
                                   fill_phase, scan_log, loop_entries >>
       ELSE /\ pc' = "exit"
            /\ UNCHANGED << max_steps, data, agent_ready, browser, step,
                            previous_url, previous_title, previous_hash,
                            current_url, current_title, page_changed,
                            fields, next_buttons, final_submit_buttons, input_fields,
                            all_filled_fields, all_failed_fields, all_errors, result,
                            fill_phase, issued, scans, scan_log, loop_entries >>
    /\ UNCHANGED << match_vars, classify_vars, dom_vars >>

StepLimitMessage == "Reached maximum steps"

\* variant: the code after the loop ends without a return statement
FinalResult_nothing(filled, failed, errs, st) == NoResult

\* variant: the filled list is dropped when something failed
FinalResult_dropOnFailure(filled, failed, errs, st) ==
    [ returned |-> TRUE,
      success |-> FALSE,
      filled_fields |-> IF Len(failed) = 0 THEN filled ELSE << >>,
      failed_fields |-> failed,
      errors |-> errs,
      steps_processed |-> st ]

\* variant: any entry in errors makes the run a failure
FinalResult_errorsFail(filled, failed, errs, st) ==
    [ returned |-> TRUE,
      success |-> Len(filled) > 0 /\ Len(failed) = 0 /\ Len(errs) = 0,
      filled_fields |-> filled,
      failed_fields |-> failed,
      errors |-> errs,
      steps_processed |-> st ]

\* the dictionary returned after the loop
FinalResult(filled, failed, errs, st) ==
    [ returned |-> TRUE,
      success |-> Len(filled) > 0 /\ Len(failed) = 0,
      filled_fields |-> filled,
      failed_fields |-> failed,
      errors |-> errs,
      steps_processed |-> st ]

\* the code after the loop
Return ==
    /\ pc = "exit"
    /\ LET errs == IF step >= max_steps THEN Append(all_errors, StepLimitMessage)
                   ELSE all_errors
       IN /\ all_errors' = errs
          /\ result' = FinalResult(all_filled_fields, all_failed_fields, errs, step)
    /\ pc' = "done"
    /\ UNCHANGED << max_steps, data, agent_ready, browser, step,
                    previous_url, previous_title, previous_hash,
                    current_url, current_title, page_changed,
                    fields, next_buttons, final_submit_buttons, input_fields,
                    all_filled_fields, all_failed_fields,
                    fill_phase, issued, scans, scan_log, loop_entries >>
    /\ UNCHANGED << match_vars, classify_vars, dom_vars >>

Next == Navigate \/ LoopTest \/ Scan \/ Fill \/ AwaitingButton \/ Return

Spec == Init /\ [][Next]_vars

\* the coroutine moves on from every position but the two final ones; every
\* step of Next changes pc, so this is the step of Next seen through pc alone
Advance ==
    /\ pc \in { "start", "loop", "scan", "fill", "buttons", "exit" }
    /\ pc' \in { "loop", "scan", "fill", "buttons", "exit", "done", "raised" }
    /\ pc' # pc

\* the run is one coroutine awaited to its end: as long as it can move on, it does
FairSpec == Init /\ [][Next]_vars /\ WF_pc(Advance)

(***************************************************************************)
(* One matcher call on its own: the field and the dictionary are drawn     *)
(* from bounded sets of strings, then the matching loop of fill_form_fields*)
(* runs for that field.                                                    *)
(***************************************************************************)
Strings(alphabet, n) == UNION { [1..k -> alphabet] : k \in 0..n }

LabelAlphabet == { "a", "A", "'", "-", "_", " " }
KeyAlphabet == { "a", "-" }

LabelPool == Strings(LabelAlphabet, MaxLen) \cup { s_First_Name, s_Email_Address, s_aaa_ddd }
KeyPool == Strings(KeyAlphabet, MaxKeyLen)
             \cup { s_firstname, s_email, s_e_mail_confirm, s_aaa_bbb_ccc }
NamePool == { << >>, s_email }
IdPool == { s_field_0, s_e_mail_confirm }

ValueOf(key) == IF key = s_firstname THEN s_John ELSE s_a_at_b

\* dictionaries: distinct keys in some iteration order
DictPool ==
    { [i \in 1..Len(ks) |-> [key |-> ks[i], val |-> ValueOf(ks[i])]] :
        ks \in { q \in UNION { [1..n -> KeyPool] : n \in 0..MaxKeys } :
                   \A i, j \in 1..Len(q) : i # j => q[i] # q[j] } }

RunIdle ==
    /\ pc = "idle"
    /\ max_steps = 0
    /\ data = << >>
    /\ agent_ready = FALSE
    /\ browser = Page(<< >>, "", << >>)
    /\ step = 0
    /\ previous_url = None /\ previous_title = "" /\ previous_hash = None
    /\ current_url = None /\ current_title = ""
    /\ page_changed = FALSE
    /\ fields = << >>
    /\ next_buttons = << >> /\ final_submit_buttons = << >> /\ input_fields = << >>
    /\ all_filled_fields = << >> /\ all_failed_fields = << >> /\ all_errors = << >>
    /\ result = NoResult
    /\ fill_phase = NoFill
    /\ issued = << >>
    /\ scans = 0
    /\ scan_log = << >>
    /\ loop_entries = 0

MatchInit ==
    /\ RunIdle /\ ClassifyIdle /\ DomIdle
    /\ m_field \in { FormField(id, "text", lbl, nm) :
                       id \in IdPool, lbl \in LabelPool, nm \in NamePool }
    /\ m_data \in DictPool
    /\ m_result = [key |-> None, value |-> None, score |-> 0]
    /\ m_pc = "ready"

\* the matching loop for one input field
MatchField ==
    /\ m_pc = "ready"
    /\ m_result' = BestMatch(m_field, m_data)
    /\ m_pc' = "matched"
    /\ UNCHANGED << m_field, m_data >>
    /\ UNCHANGED << run_vars, classify_vars, dom_vars >>

MatchNext == MatchField

MatchSpec == MatchInit /\ [][MatchNext]_vars

(***************************************************************************)
(* One call of _classify_field_type.                                       *)
(***************************************************************************)
InputTypes ==
    { "email", "tel", "file", "url", "date", "checkbox", "radio", "password",
      "submit", "button", "text", "number", "" }

AttributeValues == { << >>, << "F","i","r","s","t" >>, << "e","-","m","a","i","l" >>, << "n","e","x","t" >>, << "b","t","n" >> }

ClassifyInit ==
    /\ RunIdle /\ MatchIdle /\ DomIdle
    /\ c_input_type \in InputTypes
    /\ c_attributes \in
         { [ id |-> i, name |-> n, type |-> t, placeholder |-> p, aria_label |-> a,
             class |-> c, tagName |-> "input" ] :
             i \in AttributeValues, n \in AttributeValues, t \in { c_input_type },
             p \in AttributeValues, a \in AttributeValues, c \in AttributeValues }
    /\ c_result = "none"
    /\ c_pc = "ready"

ClassifyField ==
    /\ c_pc = "ready"
    /\ c_result' = _classify_field_type(c_input_type, c_attributes)
    /\ c_pc' = "classified"
    /\ UNCHANGED << c_input_type, c_attributes >>
    /\ UNCHANGED << run_vars, match_vars, dom_vars >>

ClassifyNext == ClassifyField

ClassifySpec == ClassifyInit /\ [][ClassifyNext]_vars

(***************************************************************************)
(* One call of find_fields on a document.                                  *)
(***************************************************************************)
DomInit ==
    /\ RunIdle /\ MatchIdle /\ ClassifyIdle
    /\ dom \in Documents(MaxElems)
    /\ page_started \in BOOLEAN
    /\ detected_fields = << >>
    /\ detected_from = << >>
    /\ d_pc = "ready"

\* find_fields: RuntimeError without a page, otherwise the detected fields
FindFields ==
    /\ d_pc = "ready"
    /\ IF ~page_started
       THEN /\ d_pc' = "raised"
            /\ UNCHANGED << detected_fields, detected_from >>
       ELSE LET found == DetectedFields(dom) IN
            /\ detected_fields' = [ k \in 1..Len(found) |-> found[k].field ]
            /\ detected_from' = [ k \in 1..Len(found) |-> found[k].el ]
            /\ d_pc' = "returned"
    /\ UNCHANGED << dom, page_started >>
    /\ UNCHANGED << run_vars, match_vars, classify_vars >>

DomNext == FindFields

DomSpec == DomInit /\ [][DomNext]_vars

(***************************************************************************)
(* Properties of the classifier (checked under ClassifySpec).              *)
(***************************************************************************)
Classified == c_pc = "classified"

\* C12: an input_type of the direct-type table gives exactly the mapped
\* type, whatever name, id, placeholder, aria-label and class hold.
C12_DirectTypePrecedence ==
    Classified =>
      /\ (c_input_type = "email" => c_result = "email")
      /\ (c_input_type = "tel" => c_result = "phone")
      /\ (c_input_type = "file" => c_result = "file")
      /\ (c_input_type = "url" => c_result = "url")
      /\ (c_input_type = "date" => c_result = "date")
      /\ (c_input_type = "checkbox" => c_result = "checkbox")
      /\ (c_input_type = "radio" => c_result = "radio")
      /\ (c_input_type = "password" => c_result = "password")
      /\ (c_input_type = "submit" => c_result = "submit")
      /\ (c_input_type = "button" => c_result = "button")

\* a checkbox whose name holds a NAME keyword and whose class holds a SUBMIT keyword
C12_Witness ==
    /\ Classified
    /\ c_input_type = "checkbox"
    /\ Contains(Lower(c_attributes.name), << "f","i","r","s","t" >>)
    /\ Contains(Lower(c_attributes.class), << "n","e","x","t" >>)
    /\ c_result = "checkbox"

\* C23: with an input_type outside the direct-type table, the result is the
\* type of the first group, in the order name, email, phone, file, url,
\* date, submit, one of whose keywords occurs in the lowercased join of name,
\* id, placeholder, aria-label and class; a name keyword wins over a keyword
\* of any later group.
C23_FirstKeywordGroupWins ==
    (Classified /\ c_input_type \notin DOMAIN type_mapping) =>
      LET searchable == Lower(JoinSpace(<< c_attributes.name, c_attributes.id,
                                           c_attributes.placeholder,
                                           c_attributes.aria_label,
                                           c_attributes.class >>))
          Hit(g) == \E k \in 1..Len(FIELD_KEYWORDS[g].keywords) :
                        Contains(searchable, FIELD_KEYWORDS[g].keywords[k])
      IN /\ << FIELD_KEYWORDS[1].field_type, FIELD_KEYWORDS[2].field_type,
               FIELD_KEYWORDS[3].field_type, FIELD_KEYWORDS[4].field_type,
               FIELD_KEYWORDS[5].field_type, FIELD_KEYWORDS[6].field_type,
               FIELD_KEYWORDS[7].field_type >>
            = << "name", "email", "phone", "file", "url", "date", "submit" >>
         /\ \A g \in 1..7 :
               (Hit(g) /\ \A h \in 1..(g - 1) : ~Hit(h))
               => c_result = FIELD_KEYWORDS[g].field_type

\* a text input with a NAME keyword in its id and a SUBMIT keyword in its name
C23_Witness ==
    /\ Classified
    /\ c_input_type = "text"
    /\ Contains(Lower(c_attributes.id), << "f","i","r","s","t" >>)
    /\ Contains(Lower(c_attributes.name), << "n","e","x","t" >>)
    /\ c_result = "name"

(***************************************************************************)
(* Properties of find_fields (checked under DomSpec).                      *)
(***************************************************************************)
Scanned == d_pc = "returned"

\* C18: the element_id of every field record is the element's id when that
\* is non-empty, otherwise its name attribute when that is non-empty,
\* otherwise a synthetic index-based id.
C18_ElementIdFromIdNameIndex ==
    Scanned =>
      \A k \in 1..Len(detected_fields) :
        LET el == dom[detected_from[k]]
            id == detected_fields[k].element_id IN
        IF el.id # << >> THEN id = el.id
        ELSE IF el.name # << >> THEN id = el.name
        ELSE \E i \in 0..Len(dom) : id = << "f","i","e","l","d","_" >> \o Str(i)

\* C24: a scan returns at most one record per element of the document.
C24_OneRecordPerElement ==
    Scanned =>
      \A k, l \in 1..Len(detected_from) :
          k # l => detected_from[k] # detected_from[l]

\* an input that is not of type submit or button, a textarea, a select or a
\* contenteditable element
NonButtonElement(el) ==
    /\ el.tagName # "button"
    /\ ~(el.tagName = "input" /\ el.type \in { "submit", "button" })

\* C30: every record made from a non-button element has a field type other
\* than SUBMIT and BUTTON, and so is an input field of the fill phase.
C30_NonButtonIsInputField ==
    Scanned =>
      \A k \in 1..Len(detected_fields) :
          NonButtonElement(dom[detected_from[k]])
          => /\ detected_fields[k].field_type \notin { "submit", "button" }
             /\ detected_fields[k] \in Range(SeparateFields(detected_fields).input_fields)

(***************************************************************************)
(* Properties of the traversal run (checked under Spec).                   *)
(***************************************************************************)
Returned == pc = "done" /\ result.returned
HasSteps == "steps_processed" \in DOMAIN result

\* a submit/button field whose label or name has a next-indicator keyword
LooksNext(f) == f.field_type \in ButtonTypes /\ AnyKeyword(next_keywords, f)
LooksFinal(f) == f.field_type \in ButtonTypes /\ AnyKeyword(final_keywords, f)
HasNextButton(fs) == \E i \in 1..Len(fs) : LooksNext(fs[i])

\* C1: the loop body is entered at most max_steps times and the returned
\* steps_processed never exceeds max_steps.
C1_StepBound ==
    /\ loop_entries <= max_steps
    /\ step <= max_steps
    /\ (Returned /\ HasSteps) => result.steps_processed <= max_steps

C1_Witness ==
    /\ Returned /\ HasSteps
    /\ max_steps >= 1
    /\ loop_entries = max_steps
    /\ result.steps_processed = max_steps

\* C2: when every scanned page had at least one field and a next button, the
\* run returns with steps_processed = max_steps and the step-limit message
\* among its errors.
C2_StepLimitReached ==
    (Returned /\ \A i \in 1..Len(scan_log) :
                    scan_log[i] # << >> /\ HasNextButton(scan_log[i]))
    => /\ HasSteps
       /\ result.steps_processed = max_steps
       /\ StepLimitMessage \in Range(result.errors)

\* C3: a run whose first scan returns no field returns success = false, the
\* single error 'No form fields found on the page', empty filled and failed
\* lists, and has issued no fill or click instruction.
C3_NoFieldsOnFirstScan ==
    (scan_log # << >> /\ scan_log[1] = << >>)
    => /\ Returned
       /\ result.success = FALSE
       /\ result.errors = << "No form fields found on the page" >>
       /\ result.filled_fields = << >>
       /\ result.failed_fields = << >>
       /\ issued = << >>

C3_Witness == pc = "done" /\ scan_log = << << >> >> /\ max_steps >= 1

\* C4: a failure of one input field does not keep the other input fields of
\* the step from being attempted, and the run does not end at a step in which
\* an input field failed while a next button was on the page and steps remain.
C4_FailureDoesNotStop ==
    LET failed_input ==
            \E i \in 1..Len(fill_phase.input_fields) :
                fill_phase.input_fields[i].element_id \in Range(fill_phase.ret.failed_fields)
    IN (fill_phase.step = step /\ step >= 1 /\ fill_phase.invoked
            /\ fill_phase.ret.errors = << >> /\ failed_input)
       => /\ \A i \in 1..Len(fill_phase.input_fields) :
                \E k \in 1..Len(issued) :
                    /\ issued[k].kind = "fill" /\ issued[k].step = step
                    /\ issued[k].field = fill_phase.input_fields[i]
          /\ ~(Returned /\ HasNextButton(fields) /\ step < max_steps)

C6_PlainButtonUntouched ==
    \A i \in 1..Len(fields) :
        (fields[i].field_type \in ButtonTypes
            /\ ~AnyKeyword(next_keywords, fields[i])
            /\ ~AnyKeyword(final_keywords, fields[i]))
        => /\ fields[i] \notin Range(next_buttons)
           /\ fields[i] \notin Range(final_submit_buttons)
           /\ fields[i] \notin Range(fill_phase.next_buttons)
           /\ fields[i] \notin Range(fill_phase.final_submit_buttons)
           /\ \A k \in 1..Len(issued) :
                 issued[k].kind = "click" => issued[k].field # fields[i]

C6_Witness ==
    /\ Returned
    /\ fill_phase.invoked /\ fill_phase.step = step
    /\ b_help \in Range(fields)
    /\ \E k \in 1..Len(issued) : issued[k].kind = "fill"

\* C7: the separation keeps exactly the non-button fields as input fields and
\* puts a button in at most one button list; a page of 3 input fields and one
\* next button gives lengths 3, 1, 0 in the fill phase and in the controller.
C7_Separation ==
    (pc \in { "buttons", "exit", "done" } /\ fill_phase.step = step /\ step >= 1
        /\ fields # << >>)
    => /\ fill_phase.input_fields = SelectSeq(fields, IsInput)
       /\ input_fields = SelectSeq(fields, IsInput)
       /\ \A i \in 1..Len(fields) :
             /\ ~(fields[i] \in Range(fill_phase.next_buttons)
                    /\ fields[i] \in Range(fill_phase.final_submit_buttons))
             /\ ~(fields[i] \in Range(next_buttons)
                    /\ fields[i] \in Range(final_submit_buttons))
       /\ fields = p_three_next =>
             /\ Len(fill_phase.input_fields) = 3
             /\ Len(fill_phase.next_buttons) = 1
             /\ Len(fill_phase.final_submit_buttons) = 0
             /\ Len(input_fields) = 3
             /\ Len(next_buttons) = 1
             /\ Len(final_submit_buttons) = 0


\* C13: a result returned after the loop has success = (filled_fields is
\* non-empty and failed_fields is empty) over the accumulated lists, whatever
\* errors holds.
C13_SuccessFromLists ==
    (Returned /\ HasSteps)
    => /\ result.filled_fields = all_filled_fields
       /\ result.failed_fields = all_failed_fields
       /\ result.success = (Len(all_filled_fields) > 0 /\ Len(all_failed_fields) = 0)

C13_Witness ==
    /\ Returned /\ HasSteps
    /\ result.success = TRUE
    /\ StepLimitMessage \in Range(result.errors)

\* the step has run its fill phase and the loop body has been left
StepOver == pc \in { "exit", "done" } /\ step >= 1 /\ fill_phase.step = step

\* the first field, in scan order, that looks like a next button
FirstNextButton(fs) ==
    fs[CHOOSE i \in 1..Len(fs) :
          LooksNext(fs[i]) /\ \A j \in 1..(i - 1) : ~LooksNext(fs[j])]

HasFinalButton(fs) == \E i \in 1..Len(fs) : LooksFinal(fs[i])

\* C14: in a step whose scan has a next button, after the fill phase the
\* controller issues a click on the first next button and, when steps remain,
\* goes on to another step.
C14_NextButtonClicked ==
    (StepOver /\ HasNextButton(fields) /\ fill_phase.ret.errors = << >>)
    => /\ \E k \in 1..Len(issued) :
             issued[k] = [kind |-> "click", field |-> FirstNextButton(fields),
                          step |-> step, by |-> "controller"]
       /\ step >= max_steps

\* C15: in a step whose scan has no next button but a final-submit button, a
\* click on a final-submit button is issued in that step, and the run ends
\* without another scan.
C15_FinalSubmitClicked ==
    (StepOver /\ ~HasNextButton(fields) /\ HasFinalButton(fields))
    => /\ \E k \in 1..Len(issued) :
             /\ issued[k].kind = "click" /\ issued[k].step = step
             /\ LooksFinal(issued[k].field)
       /\ scans = step

NextClickChangedPage ==
    /\ \E k \in 1..Len(issued) :
          /\ issued[k].kind = "click" /\ issued[k].step = step
          /\ LooksNext(issued[k].field)
    /\ \/ browser.url # current_url
       \/ browser.title # current_title

\* C20: after a next-button click that changes the URL or the title, a
\* following step is run (when steps remain) and reports 'page changed'.
C20_PageChangeReported ==
    (StepOver /\ fill_phase.ret.errors = << >> /\ NextClickChangedPage)
    => step >= max_steps

\* how often id occurs in a list of ids
Occurrences(id, ids) == Cardinality({ k \in 1..Len(ids) : ids[k] = id })

\* the step's fill phase gave a fill instruction for the field
FillInstructed(f) ==
    \E i \in 1..Len(fill_phase.instruction.fill) : fill_phase.instruction.fill[i].field = f

\* C25: after a fill phase, a field with a fill instruction is in exactly one
\* of the phase's filled_fields and failed_fields, and a field without one (a
\* button) is in neither.
C25_OnlyInstructedFieldsRecorded ==
    (pc \in { "buttons", "exit", "done" } /\ step >= 1 /\ fill_phase.step = step
        /\ fill_phase.invoked /\ fill_phase.ret.errors = << >>)
    => \A i \in 1..Len(fields) :
          LET id == fields[i].element_id
              n == Occurrences(id, fill_phase.ret.filled_fields)
                   + Occurrences(id, fill_phase.ret.failed_fields) IN
          IF FillInstructed(fields[i]) THEN n = 1 ELSE n = 0

\* C26: unless an external call raises, every run eventually returns a result.
C26_EventuallyReturns == <>(Returned \/ pc = "raised")

\* a run that returned although its page kept a next button and did not change
C26_Witness ==
    /\ Returned /\ HasSteps
    /\ HasNextButton(fields)
    /\ \E k \in 1..Len(issued) : issued[k].kind = "click" /\ LooksNext(issued[k].field)
    /\ browser.url = current_url /\ browser.title = current_title
    /\ max_steps > step

\* a click on a next button was issued in step st
NextClickAt(st) ==
    \E k \in 1..Len(issued) :
        issued[k].kind = "click" /\ issued[k].step = st /\ LooksNext(issued[k].field)

\* C27: the result has the step-limit message exactly when the loop was
\* stopped by the step bound, that is, when step max_steps ended with a click
\* on a next button (or max_steps is 0).
C27_StepLimitMessageIffBound ==
    (Returned /\ HasSteps)
    => (StepLimitMessage \in Range(result.errors)
        <=> (step = max_steps /\ (step = 0 \/ NextClickAt(step))))

\* C28: in a step whose page has a next button, exactly one click on it is
\* issued after the step's filling.
C28_OneNextClick ==
    (StepOver /\ HasNextButton(fields))
    => Cardinality({ k \in 1..Len(issued) :
                       /\ issued[k].kind = "click" /\ issued[k].step = step
                       /\ issued[k].field = FirstNextButton(fields) }) = 1

Matched == m_pc = "matched"
\* the normalized form the claims speak of: lowercase, apostrophes stripped,
\* hyphens and underscores replaced by spaces
NormalForm(s) ==
    LET Ch(c) == IF c = "'" THEN << >>
                 ELSE IF c = "-" \/ c = "_" THEN << " " >>
                 ELSE << LowerChar(c) >>
        F[i \in 0..Len(s)] == IF i = 0 THEN << >> ELSE F[i - 1] \o Ch(s[i])
    IN F[Len(s)]
DataKeys(d) == { d[i].key : i \in 1..Len(d) }

\* C8: when some key of the dictionary has the same normalized form as the
\* field's label, the score returned is at least 95.
C8_NormalizedEqualScores95 ==
    (Matched /\ \E k \in DataKeys(m_data) :
                   NormalForm(k) = NormalForm(FieldLabel(m_field)))
    => m_result.score >= 95

C8_Witness ==
    /\ Matched
    /\ \E k \in DataKeys(m_data) : NormalForm(k) = NormalForm(FieldLabel(m_field))
    /\ \A k \in DataKeys(m_data) : Lower(k) # Lower(FieldLabel(m_field))
    /\ m_result.score = 95

\* C9: label "First Name" with the dictionary {"firstname": "John"} gives
\* score 95 and value "John".
C9_FirstNameScenario ==
    (Matched /\ m_field.label = s_First_Name
        /\ m_data = << [key |-> s_firstname, val |-> s_John] >>)
    => /\ m_result.score = 95
       /\ m_result.value = s_John

\* C10 as stated: label "Email Address" with the keys "email" and
\* "e-mail confirm", in either order, gives key "email" with score 60 and a
\* strictly lower score for "e-mail confirm".
C10_EmailScenario_Original ==
    (Matched /\ m_field.label = s_Email_Address
        /\ Len(m_data) = 2 /\ DataKeys(m_data) = { s_email, s_e_mail_confirm })
    => /\ m_result.key = s_email
       /\ m_result.score = 60
       /\ KeyScore(s_e_mail_confirm, FieldLabel(m_field), m_field.name,
                   m_field.element_id) < 60

\* C10 amended: the same, for a field whose name and element id are equal
\* (ignoring case) to neither of the two keys.
C10_EmailScenario ==
    (Matched /\ m_field.label = s_Email_Address
        /\ Len(m_data) = 2 /\ DataKeys(m_data) = { s_email, s_e_mail_confirm }
        /\ Lower(m_field.name) \notin { s_email, s_e_mail_confirm }
        /\ Lower(m_field.element_id) \notin { s_email, s_e_mail_confirm })
    => /\ m_result.key = s_email
       /\ m_result.score = 60
       /\ KeyScore(s_e_mail_confirm, FieldLabel(m_field), m_field.name,
                   m_field.element_id) < 60

C10_Witness ==
    /\ Matched
    /\ m_field = FormField(s_field_0, "text", s_Email_Address, << >>)
    /\ Len(m_data) = 2 /\ m_data[1].key = s_e_mail_confirm /\ m_data[2].key = s_email
    /\ m_result.key = s_email /\ m_result.score = 60

\* the score the code gives the i-th key of the dictionary for the matched field
ScoreOfKey(i) ==
    KeyScore(m_data[i].key, FieldLabel(m_field), m_field.name, m_field.element_id)

\* C11: when no tier applies to any key of the dictionary, the matcher
\* returns key None, value None and score 0.
C11_NoRelatedKey ==
    (Matched /\ \A i \in 1..Len(m_data) : ScoreOfKey(i) = 0)
    => m_result = [key |-> None, value |-> None, score |-> 0]

C11_Witness ==
    /\ Matched
    /\ Len(m_data) = MaxKeys
    /\ \A i \in 1..Len(m_data) : ScoreOfKey(i) = 0
    /\ m_result.key = None /\ m_result.score = 0

\* C17: the key returned is the first one, in iteration order, that reaches
\* the highest score; a later key with the same score does not replace it.
C17_FirstBestWins ==
    (Matched /\ \E i \in 1..Len(m_data) : ScoreOfKey(i) > 0)
    => \E i \in 1..Len(m_data) :
          /\ \A j \in 1..Len(m_data) : ScoreOfKey(j) <= ScoreOfKey(i)
          /\ \A j \in 1..(i - 1) : ScoreOfKey(j) < ScoreOfKey(i)
          /\ m_result.key = m_data[i].key
          /\ m_result.value = m_data[i].val
          /\ m_result.score = ScoreOfKey(i)

C17_Witness ==
    /\ Matched
    /\ \E i, j \in 1..Len(m_data) :
          /\ i < j
          /\ ScoreOfKey(i) = ScoreOfKey(j) /\ ScoreOfKey(i) > 0
          /\ m_result.score = ScoreOfKey(i)
          /\ m_result.key = m_data[i].key

\* C21 as stated: the score returned is one of 100, 95, 60, 55, 50, 45, 40,
\* 35 or 0.
C21_ScoreIsListedTier ==
    Matched =>
      /\ m_result.score \in { 100, 95, 60, 55, 50, 45, 40, 35, 0 }
      /\ \A i \in 1..Len(m_data) :
            ScoreOfKey(i) \in { 100, 95, 60, 55, 50, 45, 40, 35, 0 }

\* C21: the score returned, and the score of every key, is one of 100, 95,
\* 80 (key equals the field's name), 70 (key equals the element id), 60, 55,
\* 50, 45 or 0.
C21_ScoreIsCodeTier ==
    Matched =>
      /\ m_result.score \in { 100, 95, 80, 70, 60, 55, 50, 45, 0 }
      /\ \A i \in 1..Len(m_data) :
            ScoreOfKey(i) \in { 100, 95, 80, 70, 60, 55, 50, 45, 0 }

C21_Witness ==
    /\ Matched
    /\ \E i, j \in 1..Len(m_data) : ScoreOfKey(i) = 70 /\ ScoreOfKey(j) = 80
    /\ m_result.score = 80

\* the words (longer than 2 characters) of the normalized key and label share a word
SharesWord(key, field_label) ==
    LET kws == Words(Normalize(Lower(key)))
        flws == Words(Normalize(Lower(field_label)))
    IN \E i \in 1..Len(kws) : \E j \in 1..Len(flws) : kws[i] = flws[j]

\* C22: a key that shares an identical word with the label, and to which no
\* higher tier applies, scores 35.
C22_SingleWordOverlap ==
    Matched =>
      \A i \in 1..Len(m_data) :
        (/\ SharesWord(m_data[i].key, FieldLabel(m_field))
         /\ ScoreOfKey(i) \notin { 100, 95, 80, 70, 60, 55, 50, 45, 40 })
        => ScoreOfKey(i) = 35

====
